---- MODULE Spec2Model ----
(***************************************************************************)
(* Model of the iframe embed lifecycle of LoveMoney.help:                  *)
(*   src/js/compatibility.js  class GameEmbedHandler (lines 528-1007)      *)
(*   src/js/guide.js          class LoveMoneyApp     (lines 834-1366)      *)
(* Both objects live on the same page and listen to the same iframe        *)
(* (#gameFrame).  The browser is single threaded: every action below is    *)
(* one task of the event loop (an event listener, a timer callback or a    *)
(* user action) together with the MutationObserver microtask that the      *)
(* task queues by writing iframe.src.                                      *)
(*                                                                         *)
(* The second part models the service worker of the site:                  *)
(*   src/sw.js                install, activate, fetch and message         *)
(* Its asynchronous handlers are split where they await the network: one   *)
(* operator runs a handler up to its fetch, the ...Resumes operator runs   *)
(* the rest when the network has answered.                                 *)
(*                                                                         *)
(* The third part models the compatibility test of the page:               *)
(*   src/js/compatibility.js  class CompatibilityTester (lines 6-519)      *)
(* whose async method runCompatibilityTests is split at its awaits in the  *)
(* same way.                                                               *)
(***************************************************************************)
EXTENDS Integers, Sequences, FiniteSets, TLC

VARIABLES
    gameLoaded,     \* GameEmbedHandler.gameLoaded
    retryCount,     \* GameEmbedHandler.retryCount
    loadTimeout,    \* GameEmbedHandler.loadTimeout: a timer id, 0 for null
    timers,         \* the browser's pending setTimeout callbacks, in arming order
    iframeSrc,      \* the src content attribute of #gameFrame
    navPending,     \* the iframe is navigating: its load/error event is still due
    overlay,        \* innerHTML of #loadingOverlay, "absent" without the element
    listenerOrder,  \* which object registered its iframe listeners first
    event,          \* the task the event loop ran last
    out,            \* updateStatus / trackEvent / trackTiming calls of that task
    display,        \* history: the display routine GameEmbedHandler ran last
    before,         \* history: the lifecycle state that task started in
    failures,       \* history: failures handled since construction
    mix,            \* history: the shape of the session so far
    successes,      \* history: success status updates emitted so far
    fault,          \* the method of window.loveMoneyApp that throws, or "none"
    escaped,        \* an exception left a GameEmbedHandler callback in that task
    isFullscreen,   \* LoveMoneyApp.isFullscreen
    lifecycle,      \* the service worker: parsed, installed, activated
    cacheNames,     \* the service worker: caches.keys()
    store,          \* the service worker: the responses of each cache, by URL
    clock,          \* the service worker: Date.now(), in days
    fetches,        \* the service worker: its fetch() calls still in flight
    swEvent,        \* the service worker: the event it handled last, and the answer
    isRunning,      \* CompatibilityTester.isRunning
    results,        \* CompatibilityTester.results
    runs,           \* the calls of runCompatibilityTests waiting at an await
    platform,       \* what the browser of the page supports
    tstEvent        \* the step of CompatibilityTester that ran last, and what it did

\* the page
pageVars == <<gameLoaded, retryCount, loadTimeout, timers, iframeSrc, navPending,
              overlay, listenerOrder, event, out, display,
              before, failures, mix, successes, fault, escaped, isFullscreen>>

\* the service worker
workerVars == <<lifecycle, cacheNames, store, clock, fetches, swEvent>>

\* the compatibility tester
testerVars == <<isRunning, results, runs, platform, tstEvent>>

vars == <<pageVars, workerVars, testerVars>>

----------------------------------------------------------------------------
(* Bounds of the model *)

\* pending setTimeout callbacks the model keeps at once
MaxTimers == 4

(* Program constants *)

maxRetries == 3
loadTimeoutDuration == 30000
retryDelay == 2000
restoreDelay == 100
successDelay == 1000

GameOrigin == "https://lovemoneygame.io"
GameUrl == "https://lovemoneygame.io/lovemoney.embed"
\* forceReload's `${originalSrc}?t=${Date.now()}`: the timestamp is abstracted
ReloadUrl == "https://lovemoneygame.io/lovemoney.embed?t=now"
\* what the src getter returns for src="": the empty URL resolved against the page
PageUrl == "https://lovemoney.help/"

ForeignOrigin == "https://lovemoneygame.io.evil.example"

Origins == {GameOrigin, ForeignOrigin}

----------------------------------------------------------------------------
(* Timers *)

Timer(k, i, s) == [kind |-> k, id |-> i, src |-> s]

Dur(k) ==
    CASE k = "load" -> loadTimeoutDuration
      [] k = "retry" -> retryDelay
      [] k = "success" -> successDelay
      [] k = "restore" -> restoreDelay

\* A pending callback can run next unless one armed before it is due no later.
CanFire(i) ==
    /\ i \in 1..Len(timers)
    /\ \A j \in 1..(i - 1) : Dur(timers[j].kind) > Dur(timers[i].kind)

RemoveAt(q, i) == [j \in 1..(Len(q) - 1) |-> IF j < i THEN q[j] ELSE q[j + 1]]

\* clearTimeout(id): no effect when the callback has already run
ClearTimer(q, id) == SelectSeq(q, LAMBDA t : t.id # id)

\* setTimeout returns an id no pending timer and no stored handle uses
FreshId(s) ==
    CHOOSE i \in 1..(Len(s.timers) + 2) :
        /\ i # s.loadTimeout
        /\ \A j \in 1..Len(s.timers) : s.timers[j].id # i
        /\ \A k \in 1..(i - 1) :
              k = s.loadTimeout \/ \E j \in 1..Len(s.timers) : s.timers[j].id = k

----------------------------------------------------------------------------
(* Collaborators: window.loveMoneyApp is present on the page.  Every call  *)
(* is recorded in the task's output.  A call of the method named by fault  *)
(* throws; s.thrown says an exception is propagating up the call stack.    *)

Faults == {"none", "updateStatus", "trackEvent"}

\* the statements after a throw do not run
Unless(s, r) == IF s.thrown THEN s ELSE r

Throw(s) == [s EXCEPT !.thrown = TRUE]

\* a catch block, or the end of a callback of LoveMoneyApp
Caught(s) == [s EXCEPT !.thrown = FALSE]

\* the end of a GameEmbedHandler callback: nothing there catches
Uncaught(s) == IF s.thrown THEN [s EXCEPT !.thrown = FALSE, !.escaped = TRUE] ELSE s

Status(kind, text) == [t |-> "status", a |-> kind, b |-> text]
Track(action, label) == [t |-> "track", a |-> action, b |-> label]

\* LoveMoneyApp.updateStatus(message, type)
updateStatus(s, text, kind) ==
    Unless(s, IF s.fault = "updateStatus"
              THEN Throw(s)
              ELSE [s EXCEPT !.out = Append(@, Status(kind, text))])

\* LoveMoneyApp.trackEvent(category, action, label)
trackEvent(s, action, label) ==
    Unless(s, IF s.fault = "trackEvent"
              THEN Throw(s)
              ELSE [s EXCEPT !.out = Append(@, Track(action, label))])

\* LoveMoneyApp.trackTiming(category, variable, time)
trackTiming(s, variable) ==
    Unless(s, [s EXCEPT !.out = Append(@, [t |-> "timing", a |-> variable, b |-> "ms"])])

----------------------------------------------------------------------------
(* The iframe element *)

\* the src IDL getter: the content attribute resolved against the page URL
SrcGet(attr) == IF attr = "" THEN PageUrl ELSE attr

\* history: the load events the pending success callbacks answer belong to a
\* source the iframe has left
Outdated(q) ==
    [i \in 1..Len(q) |->
        IF q[i].kind = "success" THEN [q[i] EXCEPT !.src = "stale"] ELSE q[i]]

\* iframe.src = v: the attribute changes, the frame navigates, and the
\* MutationObserver of setupIframeListeners gets one record
SetSrc(s, v) ==
    Unless(s, [s EXCEPT !.src = v, !.navPending = TRUE, !.mutations = @ + 1,
                        !.timers = Outdated(@)])

----------------------------------------------------------------------------
(* GameEmbedHandler *)

clearLoadTimeout(s) ==
    IF s.loadTimeout # 0
    THEN [s EXCEPT !.timers = ClearTimer(@, s.loadTimeout), !.loadTimeout = 0]
    ELSE s

\* a startLoadTimeout that arms without cancelling the timer it holds
startLoadTimeout_NoClear(s) ==
    LET id == FreshId(s)
    IN  Unless(s, [s EXCEPT !.timers = Append(@, Timer("load", id, "-")),
                            !.loadTimeout = id])

startLoadTimeout(s) ==
    LET c == clearLoadTimeout(s)
        id == FreshId(c)
    IN  Unless(s, [c EXCEPT !.timers = Append(@, Timer("load", id, "-")),
                            !.loadTimeout = id])

\* if (this.loadingOverlay) { ... innerHTML = markup }
SetOverlay(s, markup) ==
    IF s.overlay = "absent" THEN s ELSE [s EXCEPT !.overlay = markup]

showLoadingState(s) ==
    updateStatus([SetOverlay(s, "loading") EXCEPT !.display = "loading"],
                 "Loading game...", "loading")

showRetryState(s) ==
    updateStatus([SetOverlay(s, "retry") EXCEPT !.display = "retry"],
                 "Retrying...", "loading")

\* the error overlay shows ${errorMessage || 'Unable to load the LoveMoney game...'}
ErrorOverlay(errorMessage) ==
    [t |-> "errorOverlay", a |-> "Game Loading Failed",
     b |-> IF errorMessage = "-" THEN "Unable to load the LoveMoney game" ELSE errorMessage]

showGameError(s, errorMessage) ==
    LET a == IF s.overlay = "absent"
             THEN s
             ELSE [s EXCEPT !.overlay = "gameError",
                            !.out = Append(@, ErrorOverlay(errorMessage))]
    IN  updateStatus([a EXCEPT !.display = "error"], "Failed to load game", "error")

\* marks the iframe loaded (CSS classes)
showGameLoaded(s) == [s EXCEPT !.display = "loaded"]

\* adds the hidden class after 500 ms, which nothing reads
hideLoadingOverlay(s) == s

onGameLoadSuccess(s) ==
    IF s.gameLoaded
    THEN s
    ELSE LET a == showGameLoaded(hideLoadingOverlay(
                      [s EXCEPT !.gameLoaded = TRUE, !.retryCount = 0]))
             b == trackEvent(a, "load_success", "-")
         IN  updateStatus(b, "Game loaded successfully!", "success")

\* a retryLoad that counts and shows the retry without scheduling it
retryLoad_NoTimer(s) == showRetryState([s EXCEPT !.retryCount = @ + 1])

retryLoad(s) ==
    LET a == showRetryState([s EXCEPT !.retryCount = @ + 1])
    IN  Unless(a, [a EXCEPT !.timers = Append(@, Timer("retry", 0, "-"))])

\* an onGameLoadError that compares with <= and so retries once more
onGameLoadError_OffByOne(s, errorMessage) ==
    LET a == IF s.retryCount <= maxRetries
             THEN retryLoad(s)
             ELSE showGameError(s, errorMessage)
    IN  trackEvent(a, "load_error", errorMessage)

onGameLoadError(s, errorMessage) ==
    LET a == IF s.retryCount < maxRetries
             THEN retryLoad(s)
             ELSE showGameError(s, errorMessage)
    IN  trackEvent(a, "load_error", errorMessage)

\* the 1000 ms callback of onIframeLoad runs onGameLoadSuccess on both branches
onIframeLoad(s) ==
    LET c == clearLoadTimeout(s)
    IN  [c EXCEPT !.timers = Append(@, Timer("success", 0, "-"))]

onIframeError(s) == onGameLoadError(clearLoadTimeout(s), "Iframe failed to load")

onLoadTimeout(s) == onGameLoadError(s, "Game loading timed out")

\* a timeout callback that does not look at gameLoaded
loadTimeoutCallback_NoGuard(s) == onLoadTimeout(s)

\* the callback startLoadTimeout arms
loadTimeoutCallback(s) == IF ~s.gameLoaded THEN onLoadTimeout(s) ELSE s

\* an onSrcChange that keeps the retry count of the previous source
onSrcChange_KeepsCount(s) ==
    startLoadTimeout(showLoadingState([s EXCEPT !.gameLoaded = FALSE]))

onSrcChange(s) ==
    startLoadTimeout(showLoadingState(
        [s EXCEPT !.gameLoaded = FALSE, !.retryCount = 0]))

\* the 2000 ms callback of retryLoad
retryLoadCallback(s) ==
    LET currentSrc == SrcGet(s.src)
        a == SetSrc(s, "")
    IN  [a EXCEPT !.timers = Append(@, Timer("restore", 0, currentSrc))]

\* the 100 ms callback armed inside it
retryRestoreCallback(s, currentSrc) == startLoadTimeout(SetSrc(s, currentSrc))

\* a forceReload that resets the fields but skips the if (this.iframe) block
forceReload_NoRearm(s) ==
    LET a == showLoadingState([s EXCEPT !.retryCount = 0, !.gameLoaded = FALSE])
    IN  trackEvent(a, "force_reload", "-")

forceReload(s) ==
    LET a == showLoadingState([s EXCEPT !.retryCount = 0, !.gameLoaded = FALSE])
        b == startLoadTimeout(SetSrc(a, ReloadUrl))
    IN  trackEvent(b, "force_reload", "-")

\* a handleGameProgress that reports progress without the stage
handleGameProgress_NoStage(s, data) == trackEvent(s, "progress", "-")

handleGameProgress(s, data) == trackEvent(s, "progress", data.arg)

\* the completion modal appended to document.body: ${data.ending || 'Unknown'}
\* and ${data.finalScore || 'N/A'}
showGameComplete(s, data) ==
    Unless(s, [s EXCEPT !.out = Append(@,
        [t |-> "modal",
         a |-> IF data.arg = "-" THEN "Unknown" ELSE data.arg,
         b |-> IF data.score = "-" THEN "N/A" ELSE data.score])])

\* a handleGameComplete that reports to analytics and shows nothing
handleGameComplete_TracksOnly(s, data) == trackEvent(s, "complete", data.arg)

handleGameComplete(s, data) == showGameComplete(trackEvent(s, "complete", data.arg), data)

\* event.data as posted: an object, a JSON string, a string that is no JSON,
\* null, a number
Payload(shape, type, arg, score) ==
    [shape |-> shape, type |-> type, arg |-> arg, score |-> score]

Payloads ==
    { Payload("object", "gameLoaded", "-", "-"),
      Payload("string", "gameLoaded", "-", "-"),
      Payload("object", "gameError", "boom", "-"),
      Payload("object", "gameProgress", "stage1", "-"),
      Payload("object", "gameComplete", "High Morality", "25000"),
      Payload("object", "hello", "-", "-"),
      Payload("object", "GameComplete", "High Morality", "25000"),
      Payload("badstring", "-", "-", "-"),
      Payload("null", "-", "-", "-"),
      Payload("number", "-", "-", "-") }

\* the messages that move the lifecycle
LifecyclePayloads ==
    { Payload("object", "gameLoaded", "-", "-"),
      Payload("string", "gameLoaded", "-", "-"),
      Payload("object", "gameError", "boom", "-") }

\* what the model lets a page of another origin post
ForeignPayloads ==
    { Payload("object", "gameLoaded", "-", "-"),
      Payload("object", "gameError", "boom", "-") }

PayloadsFrom(o) == IF o = GameOrigin THEN LifecyclePayloads ELSE ForeignPayloads

\* the body of the try block: JSON.parse throws on a string that is no JSON,
\* data.type throws on null, and the switch falls to default otherwise
dispatchMessage(s, d) ==
    IF d.shape \in {"badstring", "null"}
    THEN Throw(s)
    ELSE CASE d.type = "gameLoaded" -> onGameLoadSuccess(s)
           [] d.type = "gameError" -> onGameLoadError(s, d.arg)
           [] d.type = "gameProgress" -> handleGameProgress(s, d)
           [] d.type = "gameComplete" -> handleGameComplete(s, d)
           [] OTHER -> s

\* a handleIframeMessage without the origin test
handleIframeMessage_NoOriginCheck(s, origin, d) == Caught(dispatchMessage(s, d))

\* a handleIframeMessage without the try block
handleIframeMessage_NoTry(s, origin, d) ==
    IF origin # GameOrigin THEN s ELSE dispatchMessage(s, d)

handleIframeMessage(s, origin, d) ==
    IF origin # GameOrigin
    THEN s
    ELSE Caught(dispatchMessage(s, d))

----------------------------------------------------------------------------
(* LoveMoneyApp.  Its own gameLoaded flag is written by onGameLoaded and    *)
(* read nowhere; it is left out.                                           *)

appOnGameLoaded(s) ==
    trackTiming(updateStatus(s, "Game loaded successfully!", "success"), "load_time")

\* an onGameError that also drops the fullscreen flag
appOnGameError_LeavesFullscreen(s) ==
    LET a == updateStatus([SetOverlay(s, "appError") EXCEPT !.isFullscreen = FALSE],
                          "Failed to load game", "error")
    IN  trackEvent(a, "load_error", "-")

appOnGameError(s) ==
    LET a == updateStatus(SetOverlay(s, "appError"), "Failed to load game", "error")
    IN  trackEvent(a, "load_error", "-")

\* if (iframe && loadingOverlay) { ... }
reloadGame(s) ==
    IF s.overlay = "absent"
    THEN s
    ELSE LET a == SetSrc(s, SrcGet(s.src))
             b == trackEvent(a, "reload", "-")
         IN  updateStatus(b, "Reloading game...", "loading")

\* requestFullscreen on .game-container, the fullscreen class, the flag
enterFullscreen(s) ==
    trackEvent([s EXCEPT !.isFullscreen = TRUE], "fullscreen_enter", "-")

exitFullscreen(s) ==
    trackEvent([s EXCEPT !.isFullscreen = FALSE], "fullscreen_exit", "-")

toggleFullscreen(s) ==
    IF ~s.isFullscreen THEN enterFullscreen(s) ELSE exitFullscreen(s)

----------------------------------------------------------------------------
(* Tasks of the event loop *)

NoData == Payload("-", "-", "-", "-")
Ev(k) == [kind |-> k, origin |-> "-", data |-> NoData]
Msg(o, d) == [kind |-> "message", origin |-> o, data |-> d]

\* the page state a task starts from; it has emitted nothing yet
Cur ==
    [gameLoaded |-> gameLoaded, retryCount |-> retryCount,
     loadTimeout |-> loadTimeout, timers |-> timers, src |-> iframeSrc,
     navPending |-> navPending, overlay |-> overlay,
     display |-> display,
     out |-> <<>>, mutations |-> 0,
     fault |-> fault, thrown |-> FALSE, escaped |-> FALSE,
     isFullscreen |-> isFullscreen]

\* the observer callback of setupIframeListeners: onSrcChange for each record,
\* delivered as a microtask when the task that wrote src returns; a throw
\* ends the forEach
RECURSIVE MutationObserver(_)
MutationObserver(s) ==
    IF s.mutations = 0 \/ s.thrown
    THEN s
    ELSE MutationObserver(onSrcChange([s EXCEPT !.mutations = @ - 1]))

\* the lifecycle state, read off gameLoaded and the display shown last
Phase ==
    IF gameLoaded THEN "Loaded"
    ELSE IF display = "error" THEN "Failed"
    ELSE IF display = "retry" THEN "Retrying"
    ELSE "Loading"

\* the state a task and its microtasks leave behind
Commit(s, ev) ==
    LET r == Uncaught(MutationObserver(Uncaught(s)))
    IN  /\ Len(r.timers) <= MaxTimers
        /\ gameLoaded' = r.gameLoaded
        /\ retryCount' = r.retryCount
        /\ loadTimeout' = r.loadTimeout
        /\ timers' = r.timers
        /\ iframeSrc' = r.src
        /\ navPending' = r.navPending
        /\ overlay' = r.overlay
        /\ display' = r.display
        /\ out' = r.out
        /\ event' = ev
        /\ before' = Phase
        /\ escaped' = r.escaped
        /\ isFullscreen' = r.isFullscreen
        /\ UNCHANGED <<listenerOrder, fault>>
        /\ UNCHANGED <<workerVars, testerVars>>


\* the iframe's load event: both objects listen to it
IframeLoadTask ==
    /\ navPending
    /\ LET s == [Cur EXCEPT !.navPending = FALSE]
       IN  Commit(IF listenerOrder = "handlerFirst"
                  THEN Caught(appOnGameLoaded(Uncaught(onIframeLoad(s))))
                  ELSE onIframeLoad(Caught(appOnGameLoaded(s))), Ev("load"))

\* the iframe's error event
IframeErrorTask ==
    /\ navPending
    /\ LET s == [Cur EXCEPT !.navPending = FALSE]
       IN  Commit(IF listenerOrder = "handlerFirst"
                  THEN Caught(appOnGameError(Uncaught(onIframeError(s))))
                  ELSE onIframeError(Caught(appOnGameError(s))), Ev("error"))

\* a message event on window
MessageTask(o, d) == Commit(handleIframeMessage(Cur, o, d), Msg(o, d))

\* the 30000 ms wait expires
LoadTimeoutTask ==
    \E i \in 1..Len(timers) :
        /\ CanFire(i)
        /\ timers[i].kind = "load"
        /\ Commit(loadTimeoutCallback([Cur EXCEPT !.timers = RemoveAt(@, i)]), Ev("timeout"))

\* the 1000 ms callback of onIframeLoad runs; the event records whether the
\* load it answers was of the current source
SuccessTask ==
    \E i \in 1..Len(timers) :
        /\ CanFire(i)
        /\ timers[i].kind = "success"
        /\ Commit(onGameLoadSuccess([Cur EXCEPT !.timers = RemoveAt(@, i)]),
                  [Ev("success") EXCEPT !.origin = timers[i].src])

\* the 2000 ms callback of retryLoad runs
RetryTask ==
    \E i \in 1..Len(timers) :
        /\ CanFire(i)
        /\ timers[i].kind = "retry"
        /\ Commit(retryLoadCallback([Cur EXCEPT !.timers = RemoveAt(@, i)]), Ev("retry"))

\* the 100 ms callback inside it runs
RestoreTask ==
    \E i \in 1..Len(timers) :
        /\ CanFire(i)
        /\ timers[i].kind = "restore"
        /\ Commit(retryRestoreCallback([Cur EXCEPT !.timers = RemoveAt(@, i)], timers[i].src),
                  Ev("restore"))

\* the user presses Try Again / Play Again: window.gameEmbedHandler.forceReload()
ForceReloadTask == Commit(forceReload(Cur), Ev("forceReload"))

\* the user presses r or the reload control: LoveMoneyApp.reloadGame()
ReloadGameTask == Commit(Caught(reloadGame(Cur)), Ev("reloadGame"))

\* the user presses f or the fullscreen control: LoveMoneyApp.toggleFullscreen()
ToggleFullscreenTask == Commit(Caught(toggleFullscreen(Cur)), Ev("toggleFullscreen"))

\* the user presses Escape: the keydown listener calls exitFullscreen()
EscapeKeyTask == isFullscreen /\ Commit(Caught(exitFullscreen(Cur)), Ev("escape"))

----------------------------------------------------------------------------
(* The service worker, src/sw.js.  Strings the worker searches with        *)
(* includes() are spelled out character by character.                      *)

STATIC_CACHE_NAME == "lovemoney-static-v1.0.0"
DYNAMIC_CACHE_NAME == "lovemoney-dynamic-v1.0.0"
\* the cache setCacheTime and getCacheTime open
METADATA_CACHE_NAME == "lovemoney-metadata"
\* a cache an earlier version of the worker left behind
OLD_CACHE_NAME == "lovemoney-static-v0.9.0"

CacheNames ==
    {STATIC_CACHE_NAME, DYNAMIC_CACHE_NAME, METADATA_CACHE_NAME, OLD_CACHE_NAME}

STATIC_ASSETS ==
    << "/", "/index.html", "/guide.html", "/about.html", "/privacy.html",
       "/terms.html", "/css/main.css", "/css/game-embed.css", "/css/mobile.css",
       "/js/main.js", "/js/game-embed.js", "/js/compatibility.js",
       "/js/analytics.js", "/manifest.json" >>

DYNAMIC_ASSETS == << "/assets/images/", "/assets/icons/", "/data/" >>

NETWORK_FIRST_URLS == << "https://lovemoneygame.io/", "/api/", "/analytics/" >>

\* in days; the source has milliseconds
CACHE_DURATION == [static |-> 7, dynamic |-> 1]

\* Date.now() when the worker is installed, in days since 1970
Today == 20000

\* the days after installation at which something happens
Instants == {0, 1, 7}

Chars(str) ==
    CASE str = "/" ->
           <<"/">>
      [] str = "/index.html" ->
           <<"/", "i", "n", "d", "e", "x", ".", "h", "t", "m", "l">>
      [] str = "/guide.html" ->
           <<"/", "g", "u", "i", "d", "e", ".", "h", "t", "m", "l">>
      [] str = "/about.html" ->
           <<"/", "a", "b", "o", "u", "t", ".", "h", "t", "m", "l">>
      [] str = "/privacy.html" ->
           <<"/", "p", "r", "i", "v", "a", "c", "y", ".", "h", "t", "m",
             "l">>
      [] str = "/terms.html" ->
           <<"/", "t", "e", "r", "m", "s", ".", "h", "t", "m", "l">>
      [] str = "/css/main.css" ->
           <<"/", "c", "s", "s", "/", "m", "a", "i", "n", ".", "c", "s",
             "s">>
      [] str = "/css/game-embed.css" ->
           <<"/", "c", "s", "s", "/", "g", "a", "m", "e", "-", "e", "m",
             "b", "e", "d", ".", "c", "s", "s">>
      [] str = "/css/mobile.css" ->
           <<"/", "c", "s", "s", "/", "m", "o", "b", "i", "l", "e", ".",
             "c", "s", "s">>
      [] str = "/js/main.js" ->
           <<"/", "j", "s", "/", "m", "a", "i", "n", ".", "j", "s">>
      [] str = "/js/game-embed.js" ->
           <<"/", "j", "s", "/", "g", "a", "m", "e", "-", "e", "m", "b",
             "e", "d", ".", "j", "s">>
      [] str = "/js/compatibility.js" ->
           <<"/", "j", "s", "/", "c", "o", "m", "p", "a", "t", "i", "b",
             "i", "l", "i", "t", "y", ".", "j", "s">>
      [] str = "/js/analytics.js" ->
           <<"/", "j", "s", "/", "a", "n", "a", "l", "y", "t", "i", "c",
             "s", ".", "j", "s">>
      [] str = "/manifest.json" ->
           <<"/", "m", "a", "n", "i", "f", "e", "s", "t", ".", "j", "s",
             "o", "n">>
      [] str = "/assets/images/" ->
           <<"/", "a", "s", "s", "e", "t", "s", "/", "i", "m", "a", "g",
             "e", "s", "/">>
      [] str = "/assets/icons/" ->
           <<"/", "a", "s", "s", "e", "t", "s", "/", "i", "c", "o", "n",
             "s", "/">>
      [] str = "/data/" ->
           <<"/", "d", "a", "t", "a", "/">>
      [] str = "https://lovemoneygame.io/" ->
           <<"h", "t", "t", "p", "s", ":", "/", "/", "l", "o", "v", "e",
             "m", "o", "n", "e", "y", "g", "a", "m", "e", ".", "i", "o",
             "/">>
      [] str = "/api/" ->
           <<"/", "a", "p", "i", "/">>
      [] str = "/analytics/" ->
           <<"/", "a", "n", "a", "l", "y", "t", "i", "c", "s", "/">>
      [] str = ".css" ->
           <<".", "c", "s", "s">>
      [] str = ".js" ->
           <<".", "j", "s">>
      [] str = "manifest.json" ->
           <<"m", "a", "n", "i", "f", "e", "s", "t", ".", "j", "s", "o",
             "n">>
      [] str = "/assets/" ->
           <<"/", "a", "s", "s", "e", "t", "s", "/">>
      [] str = "chrome-extension:" ->
           <<"c", "h", "r", "o", "m", "e", "-", "e", "x", "t", "e", "n",
             "s", "i", "o", "n", ":">>
      [] str = "text/html" ->
           <<"t", "e", "x", "t", "/", "h", "t", "m", "l">>
      [] str = "https://lovemoney.help" ->
           <<"h", "t", "t", "p", "s", ":", "/", "/", "l", "o", "v", "e",
             "m", "o", "n", "e", "y", ".", "h", "e", "l", "p">>
      [] str = "https://lovemoney.help/index.html" ->
           <<"h", "t", "t", "p", "s", ":", "/", "/", "l", "o", "v", "e",
             "m", "o", "n", "e", "y", ".", "h", "e", "l", "p", "/", "i",
             "n", "d", "e", "x", ".", "h", "t", "m", "l">>
      [] str = "https://lovemoney.help/api/stats" ->
           <<"h", "t", "t", "p", "s", ":", "/", "/", "l", "o", "v", "e",
             "m", "o", "n", "e", "y", ".", "h", "e", "l", "p", "/", "a",
             "p", "i", "/", "s", "t", "a", "t", "s">>
      [] str = "https://lovemoney.help/assets/images/hero.png" ->
           <<"h", "t", "t", "p", "s", ":", "/", "/", "l", "o", "v", "e",
             "m", "o", "n", "e", "y", ".", "h", "e", "l", "p", "/", "a",
             "s", "s", "e", "t", "s", "/", "i", "m", "a", "g", "e", "s",
             "/", "h", "e", "r", "o", ".", "p", "n", "g">>
      [] str = "chrome-extension://abcdef/panel.html" ->
           <<"c", "h", "r", "o", "m", "e", "-", "e", "x", "t", "e", "n",
             "s", "i", "o", "n", ":", "/", "/", "a", "b", "c", "d", "e",
             "f", "/", "p", "a", "n", "e", "l", ".", "h", "t", "m", "l">>
      [] str = "text/html,application/xhtml+xml" ->
           <<"t", "e", "x", "t", "/", "h", "t", "m", "l", ",", "a", "p",
             "p", "l", "i", "c", "a", "t", "i", "o", "n", "/", "x", "h",
             "t", "m", "l", "+", "x", "m", "l">>
      [] str = "image/png,*/*" ->
           <<"i", "m", "a", "g", "e", "/", "p", "n", "g", ",", "*", "/",
             "*">>
      [] str = "*/*" ->
           <<"*", "/", "*">>

\* String.prototype.includes
Includes(str, pattern) ==
    LET u == Chars(str)
        p == Chars(pattern)
    IN  \E i \in 0..(Len(u) - Len(p)) : \A j \in 1..Len(p) : u[i + j] = p[j]

\* patterns.some(pattern => url.includes(pattern))
SomeIncluded(patterns, url) == \E k \in 1..Len(patterns) : Includes(url, patterns[k])

StartsWith(str, prefix) ==
    LET u == Chars(str)
        p == Chars(prefix)
    IN  Len(p) <= Len(u) /\ \A j \in 1..Len(p) : u[j] = p[j]

isStaticAsset(url) ==
    \/ SomeIncluded(STATIC_ASSETS, url)
    \/ Includes(url, ".css")
    \/ Includes(url, ".js")
    \/ Includes(url, "manifest.json")

isDynamicAsset(url) ==
    \/ SomeIncluded(DYNAMIC_ASSETS, url)
    \/ Includes(url, "/assets/")
    \/ Includes(url, "/data/")

isNetworkFirstUrl(url) == SomeIncluded(NETWORK_FIRST_URLS, url)

\* the scope of the worker, against which cache.addAll resolves STATIC_ASSETS
Scope == "https://lovemoney.help"

IndexUrl == "https://lovemoney.help/index.html"
ApiUrl == "https://lovemoney.help/api/stats"
ImageUrl == "https://lovemoney.help/assets/images/hero.png"
ExtensionUrl == "chrome-extension://abcdef/panel.html"

Urls == {IndexUrl, ApiUrl, ImageUrl, ExtensionUrl}

Request(url, method, accept) == [url |-> url, method |-> method, accept |-> accept]

\* the requests of the controlled page
Requests ==
    { Request(IndexUrl, "GET", "text/html,application/xhtml+xml"),
      Request(ApiUrl, "GET", "*/*"),
      Request(ApiUrl, "POST", "*/*"),
      Request(ImageUrl, "GET", "image/png,*/*"),
      Request(ExtensionUrl, "GET", "text/html,application/xhtml+xml") }

\* a response: its status, and the day it was made (for a timestamp record of
\* setCacheTime, the time in its JSON body)
Response(status, body) == [status |-> status, body |-> body]

\* Response.ok
Ok(r) == r.status \in 200..299

\* what cache.match resolves to when nothing matches
Undefined == Response(-1, -1)

EmptyCache == [u \in Urls |-> Undefined]

\* the worker script has been fetched and nothing has run; names are the
\* caches an earlier version left, each holding the index page of its day
Unregistered(names) ==
    /\ lifecycle = "parsed"
    /\ cacheNames = names
    /\ store = [n \in CacheNames |->
                  IF n \in names
                  THEN [EmptyCache EXCEPT ![IndexUrl] = Response(200, Today - 30)]
                  ELSE EmptyCache]
    /\ clock = Today
    /\ fetches = {}
    /\ swEvent = [type |-> "none", request |-> Request(IndexUrl, "GET", "*/*"),
                  handler |-> "none", outcome |-> "-", via |-> "none",
                  response |-> Undefined, network |-> FALSE]

\* a page that registers no worker
NoWorker == Unregistered({})

----------------------------------------------------------------------------
(* The compatibility tester: class CompatibilityTester                     *)

\* calculateCompatibilityScore: the weights, in the order of the object literal
weights ==
    [browser |-> 30, iframe |-> 25, webgl |-> 15, localStorage |-> 10,
     canvas |-> 10, fullscreen |-> 5, serviceWorker |-> 5]

Features ==
    <<"browser", "iframe", "webgl", "localStorage", "canvas", "fullscreen",
      "serviceWorker">>

FeatureNames == {Features[k] : k \in 1..Len(Features)}

\* the tests of runCompatibilityTests that fill a weighed feature, in the order
\* they run in
Tests ==
    <<"browser", "iframe", "localStorage", "webgl", "canvas", "fullscreen",
      "serviceWorker">>

\* results.score before any run has computed one
NoScore == -1

\* this.results = {}: no feature tested, no performance, score, recommendations
NoResults ==
    [supported |-> [f \in FeatureNames |-> "unset"],
     performance |-> "unset",
     score |-> NoScore,
     recommendations |-> <<>>]

\* what a browser can be: each weighed feature supported or not, and the
\* score testPerformance gives it
Platforms ==
    [supported : [FeatureNames -> BOOLEAN], performance : {"excellent", "good", "poor"}]

TstEvent(kind, outcome, tested, statuses, critical, indicator) ==
    [kind |-> kind, outcome |-> outcome, tested |-> tested, out |-> statuses,
     critical |-> critical, indicator |-> indicator]

\* new CompatibilityTester() on a page of the browser p, before init() has
\* called runCompatibilityTests
Constructed(p) ==
    /\ isRunning = FALSE
    /\ results = NoResults
    /\ runs = <<>>
    /\ platform = p
    /\ tstEvent = TstEvent("none", "-", 0, <<>>, <<>>, "none")

\* the tester left aside: a browser that supports everything, and no run
NoTester ==
    Constructed([supported |-> [f \in FeatureNames |-> TRUE], performance |-> "good"])

----------------------------------------------------------------------------
\* new GameEmbedHandler() and new LoveMoneyApp() on a page whose iframe loads;
\* ov is what getElementById('loadingOverlay') finds
Page(ov) ==
    /\ gameLoaded = FALSE
    /\ retryCount = 0
    /\ loadTimeout = 1
    /\ timers = <<Timer("load", 1, "-")>>
    /\ iframeSrc = GameUrl
    /\ navPending = TRUE
    /\ overlay = ov
    /\ listenerOrder \in {"handlerFirst", "appFirst"}
    /\ event = Ev("init")
    /\ out = <<>>
    /\ display = "initial"
    /\ before = "Loading"
    /\ failures = 0
    /\ mix = "timeouts"
    /\ successes = 0
    /\ fault = "none"
    /\ escaped = FALSE
    /\ isFullscreen = FALSE

Init == Page("initial") /\ NoWorker /\ NoTester

\* the same page without a #loadingOverlay element
InitNoOverlay == Page("absent") /\ NoWorker /\ NoTester

----------------------------------------------------------------------------
(* The page under every event: the history variables are not kept.         *)

hist == <<failures, mix, successes>>

IframeLoad == IframeLoadTask /\ UNCHANGED hist
IframeError == IframeErrorTask /\ UNCHANGED hist
Message == \E o \in Origins : \E d \in PayloadsFrom(o) : MessageTask(o, d) /\ UNCHANGED hist
LoadTimeoutFires == LoadTimeoutTask /\ UNCHANGED hist
SuccessFires == SuccessTask /\ UNCHANGED hist
RetryFires == RetryTask /\ UNCHANGED hist
RestoreFires == RestoreTask /\ UNCHANGED hist
ForceReload == ForceReloadTask /\ UNCHANGED hist
ReloadGame == ReloadGameTask /\ UNCHANGED hist

Next ==
    \/ IframeLoad
    \/ IframeError
    \/ Message
    \/ LoadTimeoutFires
    \/ SuccessFires
    \/ RetryFires
    \/ RestoreFires
    \/ ForceReload
    \/ ReloadGame

Spec == Init /\ [][Next]_vars

\* the page without the overlay element, under every event
SpecNoOverlay == InitNoOverlay /\ [][Next]_vars

----------------------------------------------------------------------------
(* The load scenarios of one session: the embed loads, fails, reports      *)
(* gameLoaded or gameError, or stays silent, and nobody reloads.  The      *)
(* history variables count what the session has seen.                      *)

\* failures is counted up to one past maxRetries
CountFailure == IF failures <= maxRetries THEN failures + 1 ELSE failures

(* mix is the shape of the session so far:                                 *)
(*   "timeouts"   only waits have expired                                  *)
(*   "failures"   only failures, one of them an error the embed signalled  *)
(*   "loading"    failures, then the load event, not yet processed         *)
(*   "succeeded"  failures, then one success that has been processed       *)
(*   "other"      anything else                                            *)

AfterTimeout == IF mix \in {"timeouts", "failures"} THEN mix ELSE "other"

AfterError == IF mix \in {"timeouts", "failures"} THEN "failures" ELSE "other"

AfterLoadEvent == IF mix \in {"timeouts", "failures"} THEN "loading" ELSE "other"

AfterGameLoaded ==
    IF ~gameLoaded /\ mix \in {"timeouts", "failures"} THEN "succeeded" ELSE "other"

AfterSuccessCallback ==
    IF gameLoaded THEN mix
    ELSE IF mix = "loading" THEN "succeeded" ELSE "other"

SuccessStatuses(o) ==
    Cardinality({i \in 1..Len(o) : o[i].t = "status" /\ o[i].a = "success"})

\* success status updates are counted up to two
CountSuccesses ==
    IF successes + SuccessStatuses(out') >= 2 THEN 2 ELSE successes + SuccessStatuses(out')

ScenarioPayloads ==
    { Payload("object", "gameLoaded", "-", "-"),
      Payload("object", "gameError", "boom", "-") }

ScnIframeLoad ==
    /\ IframeLoadTask
    /\ failures' = failures /\ mix' = AfterLoadEvent /\ successes' = CountSuccesses

ScnIframeError ==
    /\ IframeErrorTask
    /\ failures' = CountFailure /\ mix' = AfterError /\ successes' = CountSuccesses

ScnMessage ==
    \E d \in ScenarioPayloads :
        /\ MessageTask(GameOrigin, d)
        /\ failures' = (IF d.type = "gameError" THEN CountFailure ELSE failures)
        /\ mix' = (IF d.type = "gameError" THEN AfterError ELSE AfterGameLoaded)
        /\ successes' = CountSuccesses

ScnLoadTimeoutFires ==
    /\ LoadTimeoutTask
    /\ failures' = (IF ~gameLoaded THEN CountFailure ELSE failures)
    /\ mix' = (IF ~gameLoaded THEN AfterTimeout ELSE mix)
    /\ successes' = CountSuccesses

ScnSuccessFires ==
    /\ SuccessTask
    /\ failures' = failures /\ mix' = AfterSuccessCallback /\ successes' = CountSuccesses

ScnRetryFires ==
    /\ RetryTask
    /\ failures' = failures /\ mix' = mix /\ successes' = CountSuccesses

ScnRestoreFires ==
    /\ RestoreTask
    /\ failures' = failures /\ mix' = mix /\ successes' = CountSuccesses

NextScenario ==
    \/ ScnIframeLoad
    \/ ScnIframeError
    \/ ScnMessage
    \/ ScnLoadTimeoutFires
    \/ ScnSuccessFires
    \/ ScnRetryFires
    \/ ScnRestoreFires

SpecScenario == Init /\ [][NextScenario]_vars

----------------------------------------------------------------------------
(* The embed and everything it can post: the events of the iframe, the     *)
(* timers, and every kind of message from the game's origin.               *)

AnyMessage == \E d \in Payloads : MessageTask(GameOrigin, d) /\ UNCHANGED hist

NextMessages ==
    \/ IframeLoad
    \/ IframeError
    \/ AnyMessage
    \/ LoadTimeoutFires
    \/ SuccessFires
    \/ RetryFires
    \/ RestoreFires

SpecMessages == Init /\ [][NextMessages]_vars

----------------------------------------------------------------------------
(* The embed under a user who toggles fullscreen and forces reloads.       *)

GameMessage == \E d \in ScenarioPayloads : MessageTask(GameOrigin, d) /\ UNCHANGED hist

ToggleFullscreen == ToggleFullscreenTask /\ UNCHANGED hist
EscapeKey == EscapeKeyTask /\ UNCHANGED hist

NextFullscreen ==
    \/ IframeLoad
    \/ IframeError
    \/ GameMessage
    \/ LoadTimeoutFires
    \/ SuccessFires
    \/ RetryFires
    \/ RestoreFires
    \/ ForceReload
    \/ ToggleFullscreen
    \/ EscapeKey

SpecFullscreen == Init /\ [][NextFullscreen]_vars

----------------------------------------------------------------------------
(* The page with a collaborator that fails: from some moment on a method   *)
(* of window.loveMoneyApp throws.  The lifecycle events are those of the    *)
(* embed, its timers and the forced reload.                                *)

CollaboratorBreaks ==
    /\ fault = "none"
    /\ fault' \in Faults \ {"none"}
    /\ event' = Ev("collaborator")
    /\ out' = <<>>
    /\ before' = Phase
    /\ escaped' = FALSE
    /\ UNCHANGED <<gameLoaded, retryCount, loadTimeout, timers, iframeSrc,
                   navPending, overlay, listenerOrder, display, hist, isFullscreen>>
    /\ UNCHANGED <<workerVars, testerVars>>

NextFaulty ==
    \/ IframeLoad
    \/ IframeError
    \/ GameMessage
    \/ LoadTimeoutFires
    \/ SuccessFires
    \/ RetryFires
    \/ RestoreFires
    \/ ForceReload
    \/ CollaboratorBreaks

SpecFaulty == Init /\ [][NextFaulty]_vars

----------------------------------------------------------------------------
(* The states of the lifecycle *)

Loaded == Phase = "Loaded"
Failed == Phase = "Failed"
Retrying == Phase = "Retrying"
Loading == Phase = "Loading"

LoadTimers == {i \in 1..Len(timers) : timers[i].kind = "load"}
RetryTimers == {i \in 1..Len(timers) : timers[i].kind \in {"retry", "restore"}}

----------------------------------------------------------------------------
(* C1: as long as the session has seen failures only, retryCount equals    *)
(* the number of failures handled while that number is at most maxRetries, *)
(* the failure display is not shown before the 4th failure, and it is      *)
(* shown from the 4th failure on.                                          *)
C1_FailedExactlyAtFourthFailure ==
    mix \in {"timeouts", "failures"} =>
        /\ failures <= maxRetries => (retryCount = failures /\ ~Failed)
        /\ failures > maxRetries => (retryCount = maxRetries /\ Failed)

----------------------------------------------------------------------------
(* What a step was, read off the task it ran *)

\* the state GameEmbedHandler owns
ctrl == <<gameLoaded, retryCount, loadTimeout, timers, iframeSrc, overlay, display>>

FromGame(ev) ==
    /\ ev.kind = "message"
    /\ ev.origin = GameOrigin
    /\ ev.data.shape \in {"object", "string"}

\* the step hands a failure to onGameLoadError
FailureStep ==
    \/ event'.kind = "error"
    \/ event'.kind = "timeout" /\ ~gameLoaded
    \/ FromGame(event') /\ event'.data.type = "gameError"

\* the step delivers a success signal of the embed
SuccessSignalStep ==
    \/ event'.kind = "load"
    \/ FromGame(event') /\ event'.data.type = "gameLoaded"

NumRetryTimers(q) == Cardinality({i \in 1..Len(q) : q[i].kind = "retry"})

Statuses(o, kind) == {i \in 1..Len(o) : o[i].t = "status" /\ o[i].a = kind}

----------------------------------------------------------------------------
(* C2: retryCount stays within 0..maxRetries, and a failure handled at     *)
(* retryCount = maxRetries shows the error display, leaves retryCount as   *)
(* it is and arms no retry.                                                *)
C2_RetryCountBounded ==
    /\ [](retryCount \in 0..maxRetries)
    /\ [][(FailureStep /\ retryCount = maxRetries) =>
            /\ retryCount' = maxRetries
            /\ display' = "error"
            /\ Statuses(out', "error") # {}
            /\ NumRetryTimers(timers') = NumRetryTimers(timers)]_vars

C2_Witness ==
    /\ before = "Failed"
    /\ event.kind \in {"error", "timeout", "message"}
    /\ retryCount = maxRetries
    /\ display = "error"
    /\ Statuses(out, "error") # {}

(* C3: a message of another origin changes nothing the controller owns and *)
(* emits nothing, whatever it carries.                                     *)
C3_ForeignOriginIgnored ==
    [][(event'.kind = "message" /\ event'.origin # GameOrigin) =>
            (UNCHANGED ctrl /\ UNCHANGED navPending /\ out' = <<>>)]_vars

C3_Witness ==
    /\ event.kind = "message"
    /\ event.origin # GameOrigin
    /\ event.data.type = "gameError"
    /\ retryCount < maxRetries
    /\ ~gameLoaded

(* C4: at most one load-timeout timer is pending, and it is the one the    *)
(* controller holds the handle of.                                         *)
C4_OneLoadTimeout ==
    /\ Cardinality(LoadTimers) <= 1
    /\ \A i \in LoadTimers : timers[i].id = loadTimeout

\* the restore callback has armed the wait twice over the one onSrcChange armed
C4_Witness ==
    /\ event.kind = "restore"
    /\ Cardinality(LoadTimers) = 1
    /\ loadTimeout # 0

(* C5: a success signal (load event, gameLoaded message) delivered while   *)
(* the controller is Loaded emits no status and no analytics event and     *)
(* changes nothing the controller owns.                                    *)
C5_SuccessWhileLoadedIsNoOp ==
    [][(gameLoaded /\ SuccessSignalStep) => (out' = <<>> /\ UNCHANGED ctrl)]_vars

(* C6: in a session in which only waits expire the controller is Failed    *)
(* exactly from the 4th expiry on, that is after 3 retry cycles.           *)
C6_TimeoutsEndInFailed ==
    mix = "timeouts" => (Failed <=> failures > maxRetries)

(* C7: when success is processed after two failures, retryCount is 2 at    *)
(* that moment and the session has emitted one success status; afterwards  *)
(* the callbacks still pending leave the controller Loaded.                *)
C7_TwoFailuresThenSuccess ==
    /\ [][(mix' = "succeeded" /\ mix # "succeeded" /\ failures = 2) =>
            (gameLoaded' /\ retryCount = 2 /\ successes' = 1)]_vars
    /\ [][(gameLoaded /\ mix = "succeeded" /\ failures = 2
              /\ event'.kind \in {"timeout", "success", "retry", "restore"}) =>
            gameLoaded']_vars

(* C8: the controller leaves Failed only by a forced reload or a source    *)
(* change, and then it is Loading with retryCount = 0.                     *)
C8_FailedIsTerminal ==
    (before = "Failed" /\ ~Failed) =>
        /\ event.kind \in {"forceReload", "reloadGame", "retry", "restore"}
        /\ Loading
        /\ retryCount = 0

(* C9: forceReload from Failed leaves retryCount = 0, gameLoaded = false,  *)
(* the loading display and one freshly armed load timeout: Loading.        *)
C9_ForceReloadFromFailed ==
    (event.kind = "forceReload" /\ before = "Failed") =>
        /\ retryCount = 0
        /\ ~gameLoaded
        /\ display = "loading"
        /\ overlay = "loading"
        /\ Loading
        /\ Cardinality(LoadTimers) = 1
        /\ \A i \in LoadTimers : timers[i].id = loadTimeout
        /\ iframeSrc = ReloadUrl
        /\ Statuses(out, "loading") # {}

C9_Witness == event.kind = "forceReload" /\ before = "Failed"

(* C10: after forceReload the only pending timer is the load timeout it    *)
(* armed: nothing armed before the reload is left to fire.                 *)
C10_ForceReloadCancelsTimers ==
    event.kind = "forceReload" => \A i \in 1..Len(timers) : timers[i].kind = "load"

----------------------------------------------------------------------------
\* the tasks that write iframe.src
SrcWriters == {"retry", "restore", "forceReload", "reloadGame"}

(* C11: after a task that wrote iframe.src, whatever state it started in,   *)
(* retryCount is 0, gameLoaded is false, the loading display is shown and   *)
(* the load timeout the controller holds is the one pending, armed last.    *)
C11_SrcChangeResets ==
    event.kind \in SrcWriters =>
        /\ retryCount = 0
        /\ ~gameLoaded
        /\ Loading
        /\ display = "loading"
        /\ Cardinality(LoadTimers) = 1
        /\ timers[Len(timers)].kind = "load"
        /\ timers[Len(timers)].id = loadTimeout

\* the retry callback of an earlier failure cleared the source of a loaded game
C11_Witness ==
    /\ event.kind = "retry"
    /\ before = "Loaded"
    /\ iframeSrc = ""
    /\ retryCount = 0

(* C12: whether or not updateStatus or trackEvent throws, no exception     *)
(* leaves a callback of the controller and the controller ends each task   *)
(* where a working collaborator leaves it: every retry it has counted is   *)
(* scheduled, and a task that wrote iframe.src ends not loaded, with       *)
(* retryCount 0 and the wait armed.                                        *)
C12_CollaboratorFaultsContained ==
    /\ ~escaped
    /\ retryCount <= NumRetryTimers(timers)
    /\ event.kind \in SrcWriters =>
            (retryCount = 0 /\ ~gameLoaded /\ Cardinality(LoadTimers) = 1)

----------------------------------------------------------------------------
MessageTypes == {"gameLoaded", "gameError", "gameProgress", "gameComplete"}

\* a message of the game's origin that carries no message the switch knows
Unrecognized(ev) ==
    /\ ev.kind = "message"
    /\ ev.origin = GameOrigin
    /\ \/ ev.data.shape \in {"badstring", "null", "number"}
       \/ ev.data.type \notin MessageTypes

(* C13: a message of the game's origin that is malformed (a string that is *)
(* no JSON, null, a number) or of an unknown type is dropped: no exception *)
(* leaves handleIframeMessage, nothing the controller owns changes and     *)
(* nothing is emitted.                                                     *)
C13_MalformedMessageDropped ==
    [][Unrecognized(event') =>
            /\ ~escaped'
            /\ out' = <<>>
            /\ UNCHANGED ctrl
            /\ UNCHANGED navPending]_vars

\* null arrived while a retry was pending
C13_Witness ==
    /\ Unrecognized(event)
    /\ event.data.shape = "null"
    /\ retryCount > 0
    /\ NumRetryTimers(timers) > 0

----------------------------------------------------------------------------
Modals(o) == {i \in 1..Len(o) : o[i].t = "modal"}
Tracks(o, action) == {i \in 1..Len(o) : o[i].t = "track" /\ o[i].a = action}

\* the task showed one completion modal with the ending and the score of the
\* message and reported one completion to analytics
OneCompletion ==
    /\ Cardinality(Modals(out)) = 1
    /\ \A i \in Modals(out) : out[i].a = "High Morality" /\ out[i].b = "25000"
    /\ Cardinality(Tracks(out, "complete")) = 1

----------------------------------------------------------------------------
\* the task moved the lifecycle: the state changed or the source was written
Transition == Phase # before \/ event.kind \in SrcWriters

StatusUpdates(o) == {i \in 1..Len(o) : o[i].t = "status"}
AnalyticsEvents(o) == {i \in 1..Len(o) : o[i].t \in {"track", "timing"}}

(* C15: a task that moves the lifecycle (to Loaded, to Retrying, back to   *)
(* Loading, to Failed, by a source change or a forced reload) emits a      *)
(* status update and an analytics event.                                   *)
C15_TransitionsEmitBoth ==
    Transition => (StatusUpdates(out) # {} /\ AnalyticsEvents(out) # {})

----------------------------------------------------------------------------
\* a wait is pending whose expiry would be handled as a failure
WaitCanFail(g, q) == ~g /\ \E i \in 1..Len(q) : q[i].kind = "load"

(* C16: a success signal (load event, gameLoaded message) leaves no wait   *)
(* whose expiry would count as a failure; only a task that writes          *)
(* iframe.src (a source change, a forced reload) brings such a wait back;  *)
(* and a wait that expires while the game is loaded is not processed: no   *)
(* status, no analytics event, no retry, no change of the display.         *)
C16_SuccessCancelsWait ==
    /\ [][SuccessSignalStep => ~WaitCanFail(gameLoaded', timers')]_vars
    /\ [][(~WaitCanFail(gameLoaded, timers) /\ WaitCanFail(gameLoaded', timers'))
            => event'.kind \in SrcWriters]_vars
    /\ [][(event'.kind = "timeout" /\ ~WaitCanFail(gameLoaded, timers)) =>
            /\ out' = <<>>
            /\ UNCHANGED <<gameLoaded, retryCount, display, overlay, iframeSrc>>
            /\ NumRetryTimers(timers') = NumRetryTimers(timers)]_vars

\* the wait armed at construction expired after the game had reported gameLoaded
C16_Witness ==
    /\ event.kind = "timeout"
    /\ gameLoaded
    /\ before = "Loaded"
    /\ out = <<>>

----------------------------------------------------------------------------
\* the addresses of the game the page gives the iframe
GameUrls == {GameUrl, ReloadUrl}

(* C17: when a retry cycle has completed (its restore callback has run),   *)
(* also when cycles overlap, iframe.src is the address of the game again,  *)
(* never empty and never another document, and the wait is armed.          *)
C17_RetryRestoresSource ==
    event.kind = "restore" =>
        /\ iframeSrc # ""
        /\ iframeSrc \in GameUrls
        /\ Cardinality(LoadTimers) = 1

----------------------------------------------------------------------------
InOut(o, r) == \E i \in 1..Len(o) : o[i] = r

(* C18: a gameProgress message of the game's origin emits one analytics    *)
(* event, which carries the stage of the message, and changes nothing the  *)
(* controller owns; a gameError message is handled as a failure whose      *)
(* reason is the message's: a retry below maxRetries, the error display    *)
(* with that reason at maxRetries, and the reason in the analytics event.  *)
C18_ProgressPassThrough ==
    /\ [][(FromGame(event') /\ event'.data.type = "gameProgress") =>
            /\ out' = <<Track("progress", event'.data.arg)>>
            /\ UNCHANGED ctrl
            /\ UNCHANGED navPending]_vars
    /\ [][(FromGame(event') /\ event'.data.type = "gameError") =>
            /\ InOut(out', Track("load_error", event'.data.arg))
            /\ retryCount < maxRetries =>
                  /\ retryCount' = retryCount + 1
                  /\ display' = "retry"
                  /\ NumRetryTimers(timers') = NumRetryTimers(timers) + 1
            /\ retryCount = maxRetries =>
                  /\ display' = "error"
                  /\ InOut(out', ErrorOverlay(event'.data.arg))
                  /\ Statuses(out', "error") # {}]_vars

\* progress reported by a loaded game while a timer is pending
C18_Witness ==
    /\ FromGame(event)
    /\ event.data.type = "gameProgress"
    /\ out = <<Track("progress", "stage1")>>
    /\ gameLoaded
    /\ timers # <<>>

----------------------------------------------------------------------------
FullscreenTasks == {"toggleFullscreen", "escape"}

(* C19: toggleFullscreen, enterFullscreen and exitFullscreen change        *)
(* nothing the controller owns (gameLoaded, retryCount, the timers,        *)
(* iframe.src), and no other task changes isFullscreen.                    *)
C19_FullscreenIndependent ==
    /\ [][event'.kind \in FullscreenTasks =>
            (UNCHANGED ctrl /\ UNCHANGED navPending)]_vars
    /\ [][event'.kind \notin FullscreenTasks => UNCHANGED isFullscreen]_vars

\* fullscreen was left while a retry was pending
C19_Witness ==
    /\ event.kind \in FullscreenTasks
    /\ ~isFullscreen
    /\ InOut(out, Track("fullscreen_exit", "-"))
    /\ retryCount > 0
    /\ NumRetryTimers(timers) > 0

----------------------------------------------------------------------------
\* the kind of the status the task left in the status bar
LastStatus(o) ==
    IF StatusUpdates(o) = {}
    THEN "none"
    ELSE o[CHOOSE i \in StatusUpdates(o) : \A j \in StatusUpdates(o) : j <= i].a

\* the recovery controls in the markup of #loadingOverlay
RecoveryActions(markup) ==
    CASE markup = "gameError" -> {"tryAgain", "openDirect", "troubleshoot"}
      [] markup = "appError" -> {"tryAgain", "openDirect"}
      [] OTHER -> {}

(* C20: when a task leaves an error status in the status bar, the page     *)
(* shows at least one recovery action with it, also on a page without the  *)
(* #loadingOverlay element.                                                *)
C20_FailureHasRecovery ==
    LastStatus(out) = "error" => RecoveryActions(overlay) # {}

----------------------------------------------------------------------------
\* the task was an error signal: the error event, an expired wait, a gameError
\* message of the game
ErrorSignal(ev) ==
    \/ ev.kind \in {"error", "timeout"}
    \/ FromGame(ev) /\ ev.data.type = "gameError"

\* the task ran retryLoad: it showed the retry display
StartedRetry(o) == InOut(o, Status("loading", "Retrying..."))

(* C21: a retry is started only from Loading: an error signal handled      *)
(* while the controller is Loaded or while a retry is pending starts no    *)
(* retry, and at most one retry-delay timer is pending.                    *)
C21_RetryOnlyFromLoading ==
    /\ NumRetryTimers(timers) <= 1
    /\ (ErrorSignal(event) /\ before \in {"Loaded", "Retrying"}) => ~StartedRetry(out)

----------------------------------------------------------------------------
\* the overlay markups titled Game Loading Failed
ErrorMarkups == {"gameError", "appError"}

\* the step shows the user an error: an error status or the failure display
SurfacesError ==
    \/ Statuses(out', "error") # {}
    \/ overlay' \in ErrorMarkups /\ overlay' # overlay

(* C22: a failure is shown to the user as an error (an error status, the   *)
(* Game Loading Failed display) only by a task that starts with the        *)
(* retries exhausted; a failure handled while retries remain is not.       *)
C22_TransientFailureNotSurfaced ==
    [][SurfacesError => retryCount = maxRetries]_vars

----------------------------------------------------------------------------
\* the task was the delayed success callback of a load event that came
\* before the most recent write of iframe.src
StaleSuccess(ev) == ev.kind = "success" /\ ev.origin = "stale"

(* C23: the delayed success callback of a load event received before the   *)
(* most recent source change (the load of the cleared source during a      *)
(* retry, a load just before a forced reload) does not set gameLoaded for  *)
(* the new source.                                                        *)
C23_SuccessIsForCurrentSource ==
    StaleSuccess(event) => ~gameLoaded

----------------------------------------------------------------------------
(* C24: whenever the controller is neither Loaded nor Failed, one of its   *)
(* timers is pending (the load timeout, a retry callback, the delayed      *)
(* success callback) and the browser can run it.                           *)
C24_NeverStalls ==
    (~Loaded /\ ~Failed) => \E i \in 1..Len(timers) : CanFire(i)

\* the error event cancelled the wait: the retry timer alone keeps it going
C24_Witness ==
    /\ event.kind = "error"
    /\ Retrying
    /\ LoadTimers = {}
    /\ Len(timers) = 1
    /\ timers[1].kind = "retry"

----------------------------------------------------------------------------
(* The service worker: the Cache API.  Each event handler works on the     *)
(* caches it finds; an await of the network ends the step, and the handler *)
(* resumes when the network answers.  The sync, push, notificationclick    *)
(* and GET_CACHE_STATUS handlers write no cache and are left out.          *)

\* fetch() calls the model keeps in flight at once
MaxInflight == 1

\* the caches as a handler sees them
Caches == [names |-> cacheNames, store |-> store]

\* caches.open(name): creates the cache when it does not exist
open(c, name) == [c EXCEPT !.names = @ \cup {name}]

\* cache.match(request)
match(c, name, url) == c.store[name][url]

\* cache.put(request, response) on a cache object opened earlier; an object
\* whose cache has been deleted since writes to nothing CacheStorage holds
put(c, name, url, response, handle) ==
    IF handle = "detached" THEN c ELSE [c EXCEPT !.store[name][url] = response]

\* caches.delete(name) for each of the names
deleteEach(c, names) ==
    [c EXCEPT !.names = @ \ names,
              !.store = [n \in CacheNames |-> IF n \in names THEN EmptyCache ELSE @[n]]]

setCacheTime(c, url, time) ==
    put(open(c, METADATA_CACHE_NAME), METADATA_CACHE_NAME, url,
        Response(200, time), "attached")

\* the time of the timestamp record, 0 without one; its caches.open is left
\* to the caller
getCacheTime(c, url) ==
    IF match(c, METADATA_CACHE_NAME, url) # Undefined
    THEN match(c, METADATA_CACHE_NAME, url).body
    ELSE 0

\* new Response(offlineHTML, ...)
createOfflinePage == Response(200, clock)

\* what the network does with a request: a 200, a 404, no answer
Outcomes == {"ok", "notok", "fail"}

NetworkResponse(outcome) == Response(IF outcome = "ok" THEN 200 ELSE 404, clock)

\* a fetch() in flight: who awaits it, for which request, and whether the
\* cache object that handler opened is still the cache of that name
Fetch(handler, request, handle) ==
    [handler |-> handler, request |-> request, handle |-> handle]

\* the handler returned a response (via says which), or threw (via "error")
Returned(c, via, response) ==
    [caches |-> c, fetches |-> {}, via |-> via, response |-> response]

\* the handler awaits the network
Awaiting(c, handler, request) ==
    [caches |-> c, fetches |-> {Fetch(handler, request, "attached")},
     via |-> "pending", response |-> Undefined]

\* handleStaticAsset up to its fetch(request)
handleStaticAsset(c, request) ==
    LET a == open(c, STATIC_CACHE_NAME)
        cachedResponse == match(a, STATIC_CACHE_NAME, request.url)
        b == open(a, METADATA_CACHE_NAME)
    IN  IF cachedResponse # Undefined
        THEN IF clock - getCacheTime(b, request.url) < CACHE_DURATION.static
             THEN Returned(b, "cache", cachedResponse)
             ELSE Awaiting(b, "static", request)
        ELSE Awaiting(a, "static", request)

\* a handleStaticAsset whose catch block does not look into the cache
handleStaticAssetResumes_NoFallback(c, f, outcome) ==
    LET networkResponse == NetworkResponse(outcome)
    IN  CASE outcome = "ok" ->
                Returned(setCacheTime(put(c, STATIC_CACHE_NAME, f.request.url,
                                          networkResponse, f.handle),
                                      f.request.url, clock),
                         "network", networkResponse)
          [] outcome = "notok" -> Returned(c, "network", networkResponse)
          [] outcome = "fail" ->
                IF Includes(f.request.accept, "text/html")
                THEN Returned(c, "offline", createOfflinePage)
                ELSE Returned(c, "error", Undefined)

\* handleStaticAsset from the answer of the network on, catch block included
handleStaticAssetResumes(c, f, outcome) ==
    LET url == f.request.url
        networkResponse == NetworkResponse(outcome)
        a == open(c, STATIC_CACHE_NAME)
        cachedResponse == match(a, STATIC_CACHE_NAME, url)
    IN  CASE outcome = "ok" ->
                Returned(setCacheTime(put(c, STATIC_CACHE_NAME, url, networkResponse,
                                          f.handle), url, clock),
                         "network", networkResponse)
          [] outcome = "notok" -> Returned(c, "network", networkResponse)
          [] outcome = "fail" ->
                IF cachedResponse # Undefined
                THEN Returned(a, "cache", cachedResponse)
                ELSE IF Includes(f.request.accept, "text/html")
                THEN Returned(a, "offline", createOfflinePage)
                ELSE Returned(a, "error", Undefined)

handleNetworkFirst(c, request) == Awaiting(c, "networkFirst", request)

handleNetworkFirstResumes(c, f, outcome) ==
    LET url == f.request.url
        networkResponse == NetworkResponse(outcome)
        a == open(c, DYNAMIC_CACHE_NAME)
        cachedResponse == match(a, DYNAMIC_CACHE_NAME, url)
    IN  CASE outcome = "ok" ->
                Returned(setCacheTime(put(a, DYNAMIC_CACHE_NAME, url, networkResponse,
                                          "attached"), url, clock),
                         "network", networkResponse)
          [] outcome = "notok" -> Returned(c, "network", networkResponse)
          [] outcome = "fail" ->
                IF cachedResponse # Undefined
                THEN Returned(a, "cache", cachedResponse)
                ELSE Returned(a, "error", Undefined)

\* handleDynamicAsset up to its awaited fetch(request), or to the return of
\* the cached response with the background fetch started
handleDynamicAsset(c, request) ==
    LET a == open(c, DYNAMIC_CACHE_NAME)
        cachedResponse == match(a, DYNAMIC_CACHE_NAME, request.url)
        b == open(a, METADATA_CACHE_NAME)
    IN  IF cachedResponse # Undefined
        THEN IF clock - getCacheTime(b, request.url) < CACHE_DURATION.dynamic
             THEN [caches |-> b,
                   fetches |-> {Fetch("background", request, "attached")},
                   via |-> "cache", response |-> cachedResponse]
             ELSE Awaiting(b, "dynamic", request)
        ELSE Awaiting(a, "dynamic", request)

handleDynamicAssetResumes(c, f, outcome) ==
    LET url == f.request.url
        networkResponse == NetworkResponse(outcome)
        a == open(c, DYNAMIC_CACHE_NAME)
        cachedResponse == match(a, DYNAMIC_CACHE_NAME, url)
    IN  CASE outcome = "ok" ->
                Returned(setCacheTime(put(c, DYNAMIC_CACHE_NAME, url, networkResponse,
                                          f.handle), url, clock),
                         "network", networkResponse)
          [] outcome = "notok" -> Returned(c, "network", networkResponse)
          [] outcome = "fail" ->
                IF cachedResponse # Undefined
                THEN Returned(a, "cache", cachedResponse)
                ELSE Returned(a, "error", Undefined)

\* a background fetch that stores every response the network gives
backgroundFetchSettles_StoresAny(c, f, outcome) ==
    IF outcome # "fail"
    THEN Returned(setCacheTime(put(c, DYNAMIC_CACHE_NAME, f.request.url,
                                   NetworkResponse(outcome), f.handle),
                               f.request.url, clock),
                  "none", Undefined)
    ELSE Returned(c, "none", Undefined)

\* the then and catch callbacks of handleDynamicAsset's background fetch
backgroundFetchSettles(c, f, outcome) ==
    IF outcome = "ok"
    THEN Returned(setCacheTime(put(c, DYNAMIC_CACHE_NAME, f.request.url,
                                   NetworkResponse(outcome), f.handle),
                               f.request.url, clock),
                  "none", Undefined)
    ELSE Returned(c, "none", Undefined)

handleDefault(c, request) == Awaiting(c, "default", request)

\* the caches the loop of handleDefault's catch block finds the request in;
\* the keys of the metadata cache are `${url}:timestamp` and match no request
Fallbacks(c, url) ==
    {n \in c.names \ {METADATA_CACHE_NAME} : match(c, n, url) # Undefined}

\* first is the cache caches.keys() lists first among those that match
handleDefaultResumes(c, f, outcome, first) ==
    CASE outcome \in {"ok", "notok"} -> Returned(c, "network", NetworkResponse(outcome))
      [] outcome = "fail" ->
            IF Fallbacks(c, f.request.url) # {}
            THEN Returned(c, "cache", match(c, first, f.request.url))
            ELSE IF Includes(f.request.accept, "text/html")
            THEN Returned(c, "offline", createOfflinePage)
            ELSE Returned(c, "error", Undefined)

\* a cleanupOldCaches whose list of valid caches lacks the dynamic cache
cleanupOldCaches_StaticOnly(c) == deleteEach(c, c.names \ {STATIC_CACHE_NAME})

cleanupOldCaches(c) ==
    deleteEach(c, c.names \ {STATIC_CACHE_NAME, DYNAMIC_CACHE_NAME})

\* updateCache up to its fetch(url)
updateCache(c, url) == Awaiting(c, "update", Request(url, "GET", "*/*"))

\* an updateCache that stores the response without looking at response.ok
updateCacheResumes_NoOkTest(c, f, outcome) ==
    IF outcome # "fail"
    THEN Returned(setCacheTime(put(open(c, DYNAMIC_CACHE_NAME), DYNAMIC_CACHE_NAME,
                                   f.request.url, NetworkResponse(outcome), "attached"),
                               f.request.url, clock),
                  "none", Undefined)
    ELSE Returned(c, "none", Undefined)

updateCacheResumes(c, f, outcome) ==
    IF outcome = "ok"
    THEN Returned(setCacheTime(put(open(c, DYNAMIC_CACHE_NAME), DYNAMIC_CACHE_NAME,
                                   f.request.url, NetworkResponse(outcome), "attached"),
                               f.request.url, clock),
                  "none", Undefined)
    ELSE Returned(c, "none", Undefined)

clearAllCaches(c) == deleteEach(c, c.names)

\* the fetch listener: the handler it passes to respondWith, "none" when it
\* returns without answering
fetchListener(request) ==
    IF request.method # "GET" THEN "none"
    ELSE IF StartsWith(request.url, "chrome-extension:") THEN "none"
    ELSE IF isStaticAsset(request.url) THEN "static"
    ELSE IF isNetworkFirstUrl(request.url) THEN "networkFirst"
    ELSE IF isDynamicAsset(request.url) THEN "dynamic"
    ELSE "default"

Handlers == {"static", "networkFirst", "dynamic", "default"}

\* event.respondWith(handler(request))
respondWith(c, handler, request) ==
    CASE handler = "static" -> handleStaticAsset(c, request)
      [] handler = "networkFirst" -> handleNetworkFirst(c, request)
      [] handler = "dynamic" -> handleDynamicAsset(c, request)
      [] handler = "default" -> handleDefault(c, request)
      [] OTHER -> Returned(c, "none", Undefined)

\* the handler that awaits f resumes
resumes(c, f, outcome, first) ==
    CASE f.handler = "static" -> handleStaticAssetResumes(c, f, outcome)
      [] f.handler = "networkFirst" -> handleNetworkFirstResumes(c, f, outcome)
      [] f.handler = "dynamic" -> handleDynamicAssetResumes(c, f, outcome)
      [] f.handler = "background" -> backgroundFetchSettles(c, f, outcome)
      [] f.handler = "default" -> handleDefaultResumes(c, f, outcome, first)
      [] f.handler = "update" -> updateCacheResumes(c, f, outcome)

\* the cache whose object the handler that awaits f holds
HandleOf(f) ==
    CASE f.handler = "static" -> STATIC_CACHE_NAME
      [] f.handler \in {"dynamic", "background"} -> DYNAMIC_CACHE_NAME
      [] OTHER -> "none"

\* the fetches in flight after the caches of these names were deleted
Detached(fs, names) ==
    {IF HandleOf(f) \in names THEN [f EXCEPT !.handle = "detached"] ELSE f : f \in fs}

\* the URLs of STATIC_ASSETS, resolved against the scope of the worker
InstalledUrls ==
    {u \in Urls : \E k \in 1..Len(STATIC_ASSETS) :
        Chars(u) = Chars(Scope) \o Chars(STATIC_ASSETS[k])}

----------------------------------------------------------------------------
(* The events of the service worker *)

SwEvent(type, request, handler, outcome, ans) ==
    [type |-> type, request |-> request, handler |-> handler, outcome |-> outcome,
     via |-> ans.via, response |-> ans.response, network |-> ans.fetches # {}]

\* what a step of a handler leaves behind; pending are the other fetches
Settle(ans, pending, ev) ==
    /\ Cardinality(pending \cup ans.fetches) <= MaxInflight
    /\ cacheNames' = ans.caches.names
    /\ store' = ans.caches.store
    /\ fetches' = pending \cup ans.fetches
    /\ swEvent' = ev
    /\ UNCHANGED <<lifecycle, clock>>
    /\ UNCHANGED <<pageVars, testerVars>>

NoRequest == Request(IndexUrl, "GET", "*/*")

\* install: caches.open(STATIC_CACHE_NAME), then cache.addAll(STATIC_ASSETS),
\* which stores all the responses or, when one is missing or not ok, none
InstallEvent ==
    /\ lifecycle = "parsed"
    /\ \E outcome \in Outcomes :
        LET a == open(Caches, STATIC_CACHE_NAME)
            b == IF outcome = "ok"
                 THEN [a EXCEPT !.store[STATIC_CACHE_NAME] =
                          [u \in Urls |-> IF u \in InstalledUrls
                                          THEN NetworkResponse(outcome)
                                          ELSE @[u]]]
                 ELSE a
        IN  /\ lifecycle' = (IF outcome = "ok" THEN "installed" ELSE "parsed")
            /\ cacheNames' = b.names
            /\ store' = b.store
            /\ swEvent' = SwEvent("install", NoRequest, "none", outcome,
                                  Returned(b, "none", Undefined))
            /\ UNCHANGED <<clock, fetches>>
            /\ UNCHANGED <<pageVars, testerVars>>

\* activate: cleanupOldCaches()
ActivateEvent ==
    /\ lifecycle = "installed"
    /\ LET a == cleanupOldCaches(Caches)
       IN  /\ lifecycle' = "activated"
           /\ cacheNames' = a.names
           /\ store' = a.store
           /\ fetches' = Detached(fetches, cacheNames \ a.names)
           /\ swEvent' = SwEvent("activate", NoRequest, "none", "-",
                                 Returned(a, "none", Undefined))
           /\ UNCHANGED clock
           /\ UNCHANGED <<pageVars, testerVars>>

\* fetch: a request of a controlled page
FetchEvent ==
    /\ lifecycle = "activated"
    /\ \E request \in Requests :
        LET handler == fetchListener(request)
            ans == respondWith(Caches, handler, request)
        IN  Settle(ans, fetches, SwEvent("fetch", request, handler, "-", ans))

\* the network answers a fetch() in flight, or fails
NetworkResponds ==
    \E f \in fetches : \E outcome \in Outcomes :
        \E first \in IF f.handler = "default" /\ Fallbacks(Caches, f.request.url) # {}
                     THEN Fallbacks(Caches, f.request.url)
                     ELSE {"none"} :
            LET ans == resumes(Caches, f, outcome, first)
            IN  Settle(ans, fetches \ {f},
                       SwEvent("response", f.request, f.handler, outcome, ans))

\* message {type: 'CACHE_UPDATE', url}
CacheUpdateMessage ==
    /\ lifecycle = "activated"
    /\ \E url \in {ImageUrl} :
        LET ans == updateCache(Caches, url)
        IN  Settle(ans, fetches,
                   SwEvent("CACHE_UPDATE", Request(url, "GET", "*/*"), "update", "-", ans))

\* message {type: 'CLEAR_CACHE'}
ClearCacheMessage ==
    /\ lifecycle = "activated"
    /\ LET a == clearAllCaches(Caches)
       IN  /\ cacheNames' = a.names
           /\ store' = a.store
           /\ fetches' = Detached(fetches, cacheNames)
           /\ swEvent' = SwEvent("CLEAR_CACHE", NoRequest, "none", "-",
                                 Returned(a, "none", Undefined))
           /\ UNCHANGED <<lifecycle, clock>>
           /\ UNCHANGED <<pageVars, testerVars>>

\* time passes
Tick ==
    /\ \E d \in Instants :
        /\ Today + d > clock
        /\ clock' = Today + d
    /\ swEvent' = SwEvent("tick", NoRequest, "none", "-",
                          Returned(Caches, "none", Undefined))
    /\ UNCHANGED <<lifecycle, cacheNames, store, fetches>>
    /\ UNCHANGED <<pageVars, testerVars>>

\* what a browser can hold when the worker is installed: nothing, the cache
\* of an earlier version, or also the caches an earlier registration of this
\* version filled
Leftovers ==
    { {},
      {OLD_CACHE_NAME},
      {OLD_CACHE_NAME, DYNAMIC_CACHE_NAME, METADATA_CACHE_NAME} }

\* the page registers the worker
WorkerInit ==
    /\ Page("initial")
    /\ listenerOrder = "handlerFirst"
    /\ \E names \in Leftovers : Unregistered(names)
    /\ NoTester

NextWorker ==
    \/ InstallEvent
    \/ ActivateEvent
    \/ FetchEvent
    \/ NetworkResponds
    \/ CacheUpdateMessage
    \/ ClearCacheMessage
    \/ Tick

SpecWorker == WorkerInit /\ [][NextWorker]_vars

----------------------------------------------------------------------------
\* the worker answered a GET request of the page itself
AnsweredFetch ==
    /\ swEvent.type = "fetch"
    /\ swEvent.request.method = "GET"
    /\ ~StartsWith(swEvent.request.url, "chrome-extension:")

(* C25: the fetch listener answers a GET request whose URL matches a       *)
(* network-first pattern with handleNetworkFirst, which goes to the        *)
(* network first, and a request whose URL matches a dynamic pattern and no *)
(* other with handleDynamicAsset.                                          *)
C25_NetworkFirstDispatch ==
    AnsweredFetch =>
        /\ isNetworkFirstUrl(swEvent.request.url) =>
              (swEvent.handler = "networkFirst" /\ swEvent.network)
        /\ (/\ isDynamicAsset(swEvent.request.url)
            /\ ~isNetworkFirstUrl(swEvent.request.url)
            /\ ~isStaticAsset(swEvent.request.url)) =>
              swEvent.handler = "dynamic"

----------------------------------------------------------------------------
\* the entry of the static cache for the request of the last event
StaticEntry == store[STATIC_CACHE_NAME][swEvent.request.url]

\* the response was stored less than 7 days ago
StoredWithinValidity(r) == r # Undefined /\ clock - r.body < CACHE_DURATION.static

(* C26: handleStaticAsset returns an asset that was put into the static    *)
(* cache less than 7 days ago from the cache, without a network request;   *)
(* it fetches an asset that is not cached, or was cached 7 days ago or     *)
(* more, from the network; and an OK answer of the network is then in the  *)
(* cache with the time of the answer as its timestamp.                     *)
C26_StaticCacheFirst ==
    /\ (swEvent.type = "fetch" /\ swEvent.handler = "static") =>
          IF StoredWithinValidity(StaticEntry)
          THEN swEvent.via = "cache" /\ swEvent.response = StaticEntry /\ ~swEvent.network
          ELSE swEvent.network
    /\ (swEvent.type = "response" /\ swEvent.handler = "static"
            /\ swEvent.outcome = "ok") =>
          /\ StaticEntry = swEvent.response
          /\ getCacheTime(Caches, swEvent.request.url) = clock

----------------------------------------------------------------------------
\* request.headers.get('accept').includes('text/html')
AcceptsHtml(request) == Includes(request.accept, "text/html")

\* the step is the catch block of the handler after its fetch() failed
FailedFetchOf(handler) ==
    /\ swEvent'.type = "response"
    /\ swEvent'.handler = handler
    /\ swEvent'.outcome = "fail"

(* C27: when the network request of handleStaticAsset fails, the handler   *)
(* returns the cached response if there is one, however old; without one   *)
(* it returns the offline page to a request that accepts text/html and     *)
(* throws otherwise; the contents of the caches do not change.             *)
C27_StaticNetworkFailure ==
    [][FailedFetchOf("static") =>
        LET cached == store[STATIC_CACHE_NAME][swEvent'.request.url]
        IN  /\ store' = store
            /\ cached # Undefined =>
                  (swEvent'.via = "cache" /\ swEvent'.response = cached)
            /\ (cached = Undefined /\ AcceptsHtml(swEvent'.request)) =>
                  (swEvent'.via = "offline" /\ Ok(swEvent'.response))
            /\ (cached = Undefined /\ ~AcceptsHtml(swEvent'.request)) =>
                  swEvent'.via = "error"]_vars

\* offline, the handler answered with an entry stored 7 days before
C27_Witness ==
    /\ swEvent.type = "response"
    /\ swEvent.handler = "static"
    /\ swEvent.outcome = "fail"
    /\ swEvent.via = "cache"
    /\ clock - swEvent.response.body >= CACHE_DURATION.static

----------------------------------------------------------------------------
ValidCaches == {STATIC_CACHE_NAME, DYNAMIC_CACHE_NAME}

(* C28: the activate event deletes every cache whose name is neither the   *)
(* current static nor the current dynamic cache name, and leaves these two  *)
(* with all their responses: what install stored is still there.           *)
C28_ActivationKeepsCurrentCaches ==
    [][swEvent'.type = "activate" =>
        /\ cacheNames' = cacheNames \cap ValidCaches
        /\ \A n \in CacheNames \ ValidCaches : store'[n] = EmptyCache
        /\ \A n \in ValidCaches : store'[n] = store[n]
        /\ \A u \in InstalledUrls : store'[STATIC_CACHE_NAME][u] # Undefined]_vars

\* activation removed the old cache and kept a dynamic cache that held a response
C28_Witness ==
    /\ swEvent.type = "activate"
    /\ cacheNames = ValidCaches
    /\ store[DYNAMIC_CACHE_NAME][IndexUrl] # Undefined
    /\ store[STATIC_CACHE_NAME][IndexUrl] # Undefined
    /\ store[OLD_CACHE_NAME][IndexUrl] = Undefined

----------------------------------------------------------------------------
(* The handlers of the worker, each called with the requests of the page,  *)
(* whichever the fetch listener would choose.                              *)

HandlerRequests ==
    { Request(IndexUrl, "GET", "text/html,application/xhtml+xml"),
      Request(ImageUrl, "GET", "image/png,*/*") }

HandlerCall ==
    /\ lifecycle = "activated"
    /\ \E handler \in Handlers : \E request \in HandlerRequests :
        LET ans == respondWith(Caches, handler, request)
        IN  Settle(ans, fetches, SwEvent("fetch", request, handler, "-", ans))

NextHandlers ==
    \/ InstallEvent
    \/ ActivateEvent
    \/ HandlerCall
    \/ NetworkResponds
    \/ CacheUpdateMessage
    \/ ClearCacheMessage
    \/ Tick

SpecHandlers == WorkerInit /\ [][NextHandlers]_vars

----------------------------------------------------------------------------
\* the response was stored less than the duration ago
StoredWithin(r, duration) == r # Undefined /\ clock - r.body < duration

----------------------------------------------------------------------------
\* the responses a cache holds
Stored(n) == {store[n][u] : u \in Urls} \ {Undefined}

(* C30: whatever install, the request handlers, CACHE_UPDATE and           *)
(* CLEAR_CACHE have done, every response in every cache is an OK response. *)
C30_OnlyOkResponsesStored ==
    \A n \in CacheNames : \A r \in Stored(n) : Ok(r)

\* the network answered 404: the handler passed it on and the cache kept the
\* OK response it had
C30_Witness ==
    /\ swEvent.type = "response"
    /\ swEvent.handler = "networkFirst"
    /\ swEvent.outcome = "notok"
    /\ ~Ok(swEvent.response)
    /\ store[DYNAMIC_CACHE_NAME][swEvent.request.url] # Undefined

----------------------------------------------------------------------------
\* the timestamp record of a url in 'lovemoney-metadata'
Timestamp(url) == store[METADATA_CACHE_NAME][url]

(* C31: every response held in the static or the dynamic cache has a       *)
(* timestamp record in 'lovemoney-metadata', whatever install, activate,   *)
(* fetch and message events have happened.                                 *)
C31_CachedResponsesAreTimestamped ==
    \A n \in {STATIC_CACHE_NAME, DYNAMIC_CACHE_NAME} : \A u \in Urls :
        store[n][u] # Undefined => Timestamp(u) # Undefined

----------------------------------------------------------------------------
(* CompatibilityTester: src/js/compatibility.js, lines 6-519               *)
(* runCompatibilityTests is an async method: a call runs up to its first   *)
(* await in the caller's task, and each later part runs when the promise   *)
(* it awaits has settled.  A tester record t carries the object's fields   *)
(* through one such part, with what the part showed and whether an         *)
(* exception is propagating.                                               *)

\* calls of runCompatibilityTests the model keeps waiting at once
MaxRuns == 2

Tst ==
    [isRunning |-> isRunning, results |-> results, thrown |-> FALSE,
     out |-> <<>>, critical |-> <<>>, indicator |-> "none", tested |-> 0]

\* CompatibilityTester.updateStatus(message, type)
testerUpdateStatus(t, text, kind) ==
    IF t.thrown THEN t ELSE [t EXCEPT !.out = Append(@, Status(kind, text))]

\* this.results[feature]?.supported
Supported(r, f) == r.supported[f] = "yes"

\* Math.round(num / den) for num >= 0 and den > 0
Round(num, den) == (2 * num + den) \div (2 * den)

\* the forEach over Object.entries(weights)
RECURSIVE weigh(_, _, _)
weigh(r, k, acc) ==
    IF k > Len(Features) THEN acc
    ELSE weigh(r, k + 1,
               [score |-> acc.score
                            + (IF Supported(r, Features[k]) THEN weights[Features[k]] ELSE 0),
                maxScore |-> acc.maxScore + weights[Features[k]]])

calculateCompatibilityScore(r) ==
    LET w == weigh(r, 1, [score |-> 0, maxScore |-> 0])
        score == w.score + (IF Supported(r, "browser") THEN weights.browser ELSE 0)
    IN  Round(score * 100, w.maxScore)

Recommendation(type, about) == [type |-> type, about |-> about]

generateRecommendations(r) ==
    LET recommendations ==
            (IF ~Supported(r, "browser")
             THEN <<Recommendation("critical", "browser")>> ELSE <<>>)
            \o (IF ~Supported(r, "iframe")
                THEN <<Recommendation("critical", "iframe")>> ELSE <<>>)
            \o (IF ~Supported(r, "webgl")
                THEN <<Recommendation("warning", "webgl")>> ELSE <<>>)
            \o (IF ~Supported(r, "localStorage")
                THEN <<Recommendation("warning", "localStorage")>> ELSE <<>>)
            \o (IF r.performance = "poor"
                THEN <<Recommendation("info", "performance")>> ELSE <<>>)
    IN  IF Len(recommendations) = 0
        THEN <<Recommendation("success", "compatible")>>
        ELSE recommendations

IsCritical(rec) == rec.type = "critical"

\* displayResults: the status and message of a score
statusOf(score) ==
    IF score >= 90 THEN Status("success", "Excellent compatibility")
    ELSE IF score >= 70 THEN Status("success", "Good compatibility")
    ELSE IF score >= 50 THEN Status("warning", "Limited compatibility")
    ELSE Status("error", "Poor compatibility")

displayResults(t) ==
    LET st == statusOf(t.results.score)
        a == testerUpdateStatus(t, st.b, st.a)
        criticalIssues == SelectSeq(t.results.recommendations, IsCritical)
    IN  [a EXCEPT !.critical = criticalIssues, !.indicator = st.a]

\* the synchronous tests from the k-th on, in a browser p; the test named
\* failing throws
RECURSIVE runTests(_, _, _, _)
runTests(t, k, p, failing) ==
    IF k > Len(Tests) THEN t
    ELSE IF Tests[k] = failing THEN [t EXCEPT !.thrown = TRUE]
    ELSE runTests([t EXCEPT !.results.supported[Tests[k]] =
                                IF p.supported[Tests[k]] THEN "yes" ELSE "no",
                            !.tested = @ + 1],
                  k + 1, p, failing)

\* the catch block of runCompatibilityTests
catchBlock(t) ==
    IF t.thrown
    THEN testerUpdateStatus([t EXCEPT !.thrown = FALSE], "Compatibility test failed", "warning")
    ELSE t

\* the statement after the try block; outcome is how the call ended
leave(t, outcome) ==
    [t |-> [catchBlock(t) EXCEPT !.isRunning = FALSE], outcome |-> outcome, at |-> "none"]

\* the call stops at an await
waits(t, at) == [t |-> t, outcome |-> "awaiting", at |-> at]

runCompatibilityTests_NoGuard(t, p, failing) ==
    LET a == testerUpdateStatus([t EXCEPT !.isRunning = TRUE],
                                "Testing compatibility...", "loading")
        b == runTests(a, 1, p, failing)
    IN  IF b.thrown THEN leave(b, "failed") ELSE waits(b, "performance")

\* runCompatibilityTests up to `await this.testPerformance()`
runCompatibilityTests(t, p, failing) ==
    IF t.isRunning THEN [t |-> t, outcome |-> "skipped", at |-> "none"]
    ELSE LET a == testerUpdateStatus([t EXCEPT !.isRunning = TRUE],
                                     "Testing compatibility...", "loading")
             b == runTests(a, 1, p, failing)
         IN  IF b.thrown THEN leave(b, "failed") ELSE waits(b, "performance")

\* from the settling of testPerformance to `await this.testNetworkCapabilities()`
performanceResumes(t, p, rejected) ==
    IF rejected THEN leave([t EXCEPT !.thrown = TRUE], "failed")
    ELSE waits([t EXCEPT !.results.performance = p.performance, !.tested = @ + 1],
               "network")

\* from the settling of testNetworkCapabilities to the end
networkResumes(t, failing) ==
    IF failing = "network" THEN leave([t EXCEPT !.thrown = TRUE], "failed")
    ELSE LET a == [t EXCEPT !.tested = @ + 1,
                            !.results.score = calculateCompatibilityScore(t.results)]
             b == [a EXCEPT !.results.recommendations = generateRecommendations(a.results)]
             c == displayResults(b)
         IN  IF failing = "track"
             THEN leave([c EXCEPT !.thrown = TRUE], "failed")
             ELSE leave(c, "completed")

\* what a part of a run leaves behind; waiting are the other calls
TesterStep(kind, ans, waiting) ==
    /\ isRunning' = ans.t.isRunning
    /\ results' = ans.t.results
    /\ runs' = (IF ans.at = "none" THEN waiting ELSE Append(waiting, ans.at))
    /\ tstEvent' = TstEvent(kind, ans.outcome, ans.t.tested, ans.t.out,
                            ans.t.critical, ans.t.indicator)
    /\ UNCHANGED platform
    /\ UNCHANGED <<pageVars, workerVars>>

Without(q, i) == SubSeq(q, 1, i - 1) \o SubSeq(q, i + 1, Len(q))

\* init(), or any script of the page, calls runCompatibilityTests()
RunCompatibilityTests ==
    /\ Len(runs) < MaxRuns
    /\ \E failing \in {"none"} \cup FeatureNames :
        TesterStep("call", runCompatibilityTests(Tst, platform, failing), runs)

\* the promise of testPerformance settles
PerformanceSettles ==
    \E i \in 1..Len(runs) : \E rejected \in BOOLEAN :
        /\ runs[i] = "performance"
        /\ TesterStep("performance", performanceResumes(Tst, platform, rejected),
                      Without(runs, i))

\* the promise of testNetworkCapabilities settles
NetworkSettles ==
    \E i \in 1..Len(runs) : \E failing \in {"none", "network", "track"} :
        /\ runs[i] = "network"
        /\ TesterStep("network", networkResumes(Tst, failing), Without(runs, i))

\* the page in some browser, its tester constructed
TesterInit ==
    /\ Page("initial")
    /\ listenerOrder = "handlerFirst"
    /\ NoWorker
    /\ \E p \in Platforms : Constructed(p)

NextTester ==
    \/ RunCompatibilityTests
    \/ PerformanceSettles
    \/ NetworkSettles

SpecTester == TesterInit /\ [][NextTester]_vars

----------------------------------------------------------------------------
(* C32: the score calculateCompatibilityScore has computed is an integer   *)
(* between 0 and 100, whatever the browser supports.                        *)
C32_ScoreIsPercentage ==
    results.score # NoScore => results.score \in 0..100

----------------------------------------------------------------------------
\* displayResults ran in the last step and showed critical issues
ShowedCriticalIssues == tstEvent.indicator # "none" /\ Len(tstEvent.critical) > 0

(* C33: when the run produced a critical recommendation, the status that   *)
(* displayResults shows is not a success status.                            *)
C33_NoSuccessWithCriticalIssue ==
    ShowedCriticalIssues =>
        /\ tstEvent.indicator # "success"
        /\ \A k \in 1..Len(tstEvent.out) : tstEvent.out[k].a # "success"

----------------------------------------------------------------------------
\* the last step was a call that found a run in progress
SkippedCall == tstEvent.kind = "call" /\ tstEvent.outcome = "skipped"

(* C34: at most one call of runCompatibilityTests is waiting at an await,  *)
(* and isRunning is true exactly while one is: it is false again when the  *)
(* run has completed and when a test threw.  A call made meanwhile returns *)
(* without running a test, showing a status or touching results.           *)
C34_OneRunAtATime ==
    /\ [](/\ Len(runs) <= 1
          /\ isRunning <=> Len(runs) = 1
          /\ tstEvent.outcome \in {"completed", "failed"} => ~isRunning
          /\ SkippedCall => tstEvent.tested = 0 /\ tstEvent.out = <<>>)
    /\ [][SkippedCall' /\ tstEvent.outcome = "awaiting" =>
              /\ results' = results
              /\ runs' = runs
              /\ isRunning']_vars

\* a call arrived while a run was waiting for its network test
C34_Witness ==
    /\ SkippedCall
    /\ runs = <<"network">>
    /\ isRunning

====
